---- MODULE Spec2Model ----
(***************************************************************************)
(* A model of the /analyze handler of ai_seo_brain/main.py (analyze_seo)   *)
(* together with the helpers it calls: safe_gemini_call, get_page_text,    *)
(* generate_meta_description, generate_alt_text, perform_keyword_analysis  *)
(* and apply_all_suggestions.                                              *)
(*                                                                         *)
(* Strings are sequences of tokens.  Text that the code inspects character *)
(* by character (attribute values, text nodes, AI answers) is a sequence   *)
(* of one-character tokens; the literal parts of a message are one token.  *)
(* A document is the pair of element lists of <head> and <body> in         *)
(* document order; an element has a name, its attributes and at most one   *)
(* text child.                                                             *)
(***************************************************************************)
EXTENDS Integers, Sequences, FiniteSets, TLC

VARIABLES
    request,        \* SeoRequest: content (the document), contentType, config
    ai_model_flash, \* module global: the Gemini client, or NoClient
    ai_model_pro,   \* module global: alias of the same client
    pc,             \* position of analyze_seo
    soup,           \* the parsed document, mutated in place
    page_text,
    target_keyword,
    writing_report,
    issues,
    suggestions,
    seo_score,
    title_tag,
    meta_tag,
    h1_tags,
    img_index,      \* position of the image loop
    link_analysis,  \* internal_links, external_links, external_domains
    keyword_report,
    semantic_report,
    ai_link_suggestions,
    competitor_report,
    link_report,
    applied_html,
    ai_calls,       \* the collaborator calls made so far, in order
    db_rows,        \* the suggestions table: rows committed, and whether
                    \* a transaction was rolled back
    response        \* what the caller receives

vars == <<request, ai_model_flash, ai_model_pro, pc, soup, page_text,
          target_keyword, writing_report, issues, suggestions, seo_score,
          title_tag, meta_tag, h1_tags, img_index, link_analysis,
          keyword_report, semantic_report, ai_link_suggestions,
          competitor_report, link_report,
          applied_html, ai_calls, db_rows, response>>

----------------------------------------------------------------------------
(* Python values *)

\* None where a string is expected (Optional[str], Tag.string, dict.get)
None == << "<None>" >>

\* None where an object is expected (Optional[dict], Optional[Tag], ...)
NoneObj == [none |-> TRUE]

\* a local variable that has not been assigned yet
Unbound == [unbound |-> TRUE]

\* a config value that is not a string (a JSON number such as 123)
NonString == << "<int>" >>

NoClient == "NoClient"

Min(a, b) == IF a < b THEN a ELSE b
Max(a, b) == IF a > b THEN a ELSE b

\* s[:n]
Take(s, n) == SubSeq(s, 1, Min(n, Len(s)))

\* s[n:] (0-based n)
Drop(s, n) == SubSeq(s, n + 1, Len(s))

WhiteSpace == {" ", "\n", "\t"}

\* str.strip()
RECURSIVE LStrip(_)
LStrip(s) == IF s /= <<>> /\ Head(s) \in WhiteSpace THEN LStrip(Tail(s)) ELSE s

RECURSIVE RStrip(_)
RStrip(s) ==
    IF s /= <<>> /\ s[Len(s)] \in WhiteSpace
    THEN RStrip(SubSeq(s, 1, Len(s) - 1))
    ELSE s

Strip(s) == RStrip(LStrip(s))

\* str.strip('"')
RECURSIVE LStripQuote(_)
LStripQuote(s) == IF s /= <<>> /\ Head(s) = "\"" THEN LStripQuote(Tail(s)) ELSE s

RECURSIVE RStripQuote(_)
RStripQuote(s) ==
    IF s /= <<>> /\ s[Len(s)] = "\""
    THEN RStripQuote(SubSeq(s, 1, Len(s) - 1))
    ELSE s

StripQuote(s) == RStripQuote(LStripQuote(s))

UpperChars == <<"A", "B", "C", "D", "E", "F", "G", "H", "I", "J", "K", "L", "M",
                "N", "O", "P", "Q", "R", "S", "T", "U", "V", "W", "X", "Y", "Z">>
LowerChars == <<"a", "b", "c", "d", "e", "f", "g", "h", "i", "j", "k", "l", "m",
                "n", "o", "p", "q", "r", "s", "t", "u", "v", "w", "x", "y", "z">>

LowerChar(c) ==
    IF \E i \in 1..Len(UpperChars) : UpperChars[i] = c
    THEN LowerChars[CHOOSE i \in 1..Len(UpperChars) : UpperChars[i] = c]
    ELSE c

\* str.lower()
Lower(s) == [i \in 1..Len(s) |-> LowerChar(s[i])]

\* s.startswith(p)
StartsWith(s, p) == Len(s) >= Len(p) /\ SubSeq(s, 1, Len(p)) = p

\* sub in s
Contains(s, sub) ==
    \E i \in 0..(Len(s) - Len(sub)) : SubSeq(s, i + 1, i + Len(sub)) = sub

\* s.count(sub): non-overlapping occurrences, scanning from the left
RECURSIVE Count(_, _)
Count(s, sub) ==
    IF sub = <<>> THEN Len(s) + 1
    ELSE IF Len(s) < Len(sub) THEN 0
    ELSE IF SubSeq(s, 1, Len(sub)) = sub THEN 1 + Count(Drop(s, Len(sub)), sub)
    ELSE Count(Tail(s), sub)

\* re.sub(r'\s+', ' ', s)
RECURSIVE CollapseSpace(_)
CollapseSpace(s) ==
    IF s = <<>> THEN <<>>
    ELSE IF Head(s) \in WhiteSpace
         THEN <<" ">> \o CollapseSpace(LStrip(s))
         ELSE <<Head(s)>> \o CollapseSpace(Tail(s))

\* len(s.split()): the number of whitespace-separated words
RECURSIVE WordCount(_)
WordCount(s) ==
    LET t == LStrip(s)
    IN IF t = <<>> THEN 0
       ELSE LET k == CHOOSE n \in 1..Len(t) :
                        /\ \A i \in 1..n : t[i] \notin WhiteSpace
                        /\ (n = Len(t) \/ t[n + 1] \in WhiteSpace)
            IN 1 + WordCount(Drop(t, k))

----------------------------------------------------------------------------
(* The document: BeautifulSoup(request.content, 'html.parser')              *)
(*                                                                         *)
(* doc = [hasHead, head, hasBody, body]: head and body are the elements    *)
(* before and inside <body>, in document order.  An element is             *)
(* [name, attrs, children]; a child is an element or a text node           *)
(* [name |-> "#text", attrs, text].                                        *)

NoAttrs == <<>>

SetAttr(attrs, key, v) ==
    [k \in DOMAIN attrs \cup {key} |-> IF k = key THEN v ELSE attrs[k]]

TextNode(t) == [name |-> "#text", attrs |-> NoAttrs, text |-> t]
Element(name, attrs, children) == [name |-> name, attrs |-> attrs, children |-> children]
InlineLink(href, t) == Element("a", [href |-> href], <<TextNode(t)>>)

\* Tag.get(attr): None when the attribute is absent
Get(tag, attr) == IF attr \in DOMAIN tag.attrs THEN tag.attrs[attr] ELSE None

\* Tag.get(attr, default)
GetOr(tag, attr, default) ==
    IF attr \in DOMAIN tag.attrs THEN tag.attrs[attr] ELSE default

\* dict.get(key): None when the key is absent
DictGet(d, key) == IF key \in DOMAIN d THEN d[key] ELSE None

\* truthiness of an Optional[str]
Truthy(s) == s /= None /\ s /= <<>>

RECURSIVE Flatten(_)
Flatten(ss) == IF ss = <<>> THEN <<>> ELSE Head(ss) \o Flatten(Tail(ss))

\* the top-level elements in document order
Elements(doc) == doc.head \o doc.body

\* an element and the tags nested in it, in document order
RECURSIVE TagsOf(_)
TagsOf(e) ==
    IF e.name = "#text" THEN <<>>
    ELSE <<e>> \o Flatten([i \in 1..Len(e.children) |-> TagsOf(e.children[i])])

\* every tag in document order
AllTags(doc) == Flatten([i \in 1..Len(Elements(doc)) |-> TagsOf(Elements(doc)[i])])

\* soup.find_all(names)
FindAll(doc, names) == SelectSeq(AllTags(doc), LAMBDA e : e.name \in names)

\* soup.find(name): the first one, or None
Find(doc, name) ==
    LET found == FindAll(doc, {name})
    IN IF found = <<>> THEN NoneObj ELSE found[1]

IsMetaDescription(e) == e.name = "meta" /\ Get(e, "name") = <<"description">>

\* soup.find('meta', attrs={'name': 'description'})
FindMetaDescription(doc) ==
    LET found == SelectSeq(AllTags(doc), IsMetaDescription)
    IN IF found = <<>> THEN NoneObj ELSE found[1]

\* Tag.string: the string of a tag with exactly one child, that child being
\* a string or a tag that has a .string itself
RECURSIVE TagString(_)
TagString(e) ==
    IF Len(e.children) /= 1 THEN None
    ELSE IF e.children[1].name = "#text" THEN e.children[1].text
    ELSE TagString(e.children[1])

\* the strings inside an element, in document order
RECURSIVE StringsOf(_)
StringsOf(e) ==
    IF e.name = "#text" THEN <<e.text>>
    ELSE Flatten([i \in 1..Len(e.children) |-> StringsOf(e.children[i])])

\* the non-empty stripped strings of a list of strings
StrippedStrings(ss) ==
    LET st == [i \in 1..Len(ss) |-> Strip(ss[i])]
    IN SelectSeq(st, LAMBDA t : t /= <<>>)

\* sep.join(ss)
RECURSIVE Join(_, _)
Join(sep, ss) ==
    IF ss = <<>> THEN <<>>
    ELSE IF Len(ss) = 1 THEN ss[1]
    ELSE ss[1] \o sep \o Join(sep, Tail(ss))

\* Tag.get_text(strip=True)
GetTextStrip(e) == Join(<<>>, StrippedStrings(StringsOf(e)))

\* nodes without the <script> and <style> elements among and inside them
RECURSIVE WithoutScripts(_)
WithoutScripts(nodes) ==
    LET kept == SelectSeq(nodes, LAMBDA e : e.name \notin {"script", "style"})
    IN [i \in 1..Len(kept) |->
           IF kept[i].name = "#text" THEN kept[i]
           ELSE [kept[i] EXCEPT !.children = WithoutScripts(@)]]

\* the document without its <script> and <style> elements (Tag.decompose)
Decomposed(doc) ==
    [doc EXCEPT !.head = WithoutScripts(@), !.body = WithoutScripts(@)]

\* get_page_text: the text of the document once script and style are removed
get_page_text(doc) ==
    LET els == Elements(Decomposed(doc))
        strings == Flatten([i \in 1..Len(els) |-> StringsOf(els[i])])
    IN CollapseSpace(Join(<<" ">>, StrippedStrings(strings)))

----------------------------------------------------------------------------
(* MODULE 3: AI Engine *)

(* A JSON value is [type, value]: a dict's value is a function from its keys *)
(* to JSON values, a str's value its characters, a list's value a sequence.  *)
JStr(s) == [type |-> "str", value |-> s]
JInt(n) == [type |-> "int", value |-> n]
JNull == [type |-> "null", value |-> <<>>]
JList(l) == [type |-> "list", value |-> l]
JDict(d) == [type |-> "dict", value |-> d]

\* isinstance(v, dict) and key in v
HasKey(v, key) == v.type = "dict" /\ key \in DOMAIN v.value

\* str(v) for the JSON values an answer may hold under a key
PyStr(v) ==
    CASE v.type = "str" -> v.value
      [] v.type = "null" -> <<"N", "o", "n", "e">>
      [] v.type = "int" -> <<ToString(v.value)>>
      [] OTHER -> <<"[", "]">>

\* what json.loads raises JSONDecodeError on
NotJson == [type |-> "JSONDecodeError", value |-> <<>>]

(* An answer of the provider: exc says whether generate_content_async (or   *)
(* reading response.text) raises; text is response.text, fence whether it   *)
(* is wrapped in a ```json fence, and json what json.loads makes of the     *)
(* text once the fence is removed.                                          *)
Answer(text, json) == [exc |-> "none", fence |-> FALSE, text |-> text, json |-> json]
Fenced(a) == [a EXCEPT !.fence = TRUE]
Raises(kind) == [exc |-> kind, fence |-> FALSE, text |-> <<>>, json |-> NotJson]

ErrorDict(msg) == JDict([error |-> JStr(<<msg>>)])

\* task_name == "meta_description" or task_name.startswith("alt_text:")
IsMetaOrAltTask(task_name) ==
    task_name = <<"meta_description">> \/ StartsWith(task_name, <<"alt_text:">>)

\* safe_gemini_call handing the text of an exception on as a suggestion
safe_gemini_call_ErrAsText(client, answer, task_name) ==
    IF client = NoClient THEN ErrorDict("AI client not initialized")
    ELSE IF answer.exc /= "none" THEN JDict([suggestion |-> JStr(<<"str(e)">>)])
    ELSE LET raw_text == Strip(answer.text)
         IN IF raw_text = <<>> THEN ErrorDict("empty response")
            ELSE IF answer.json /= NotJson THEN answer.json
            ELSE IF IsMetaOrAltTask(task_name)
                 THEN JDict([suggestion |-> JStr(raw_text),
                             explanation |-> JStr(<<"AI generated (non-JSON response).">>)])
                 ELSE JDict([error |-> JStr(<<"invalid json">>),
                             raw_output |-> JStr(raw_text)])

\* safe_gemini_call: the provider's answer turned into a dict, a list or
\* whatever else json.loads returned
safe_gemini_call(client, answer, task_name) ==
    IF client = NoClient THEN ErrorDict("AI client not initialized")
    ELSE IF answer.exc = "quota"
         THEN ErrorDict("API quota exceeded. Please check your plan and billing.")
    ELSE IF answer.exc /= "none" THEN ErrorDict("str(e)")
    ELSE LET raw_text == Strip(answer.text)
         IN IF raw_text = <<>> THEN ErrorDict("empty response")
            ELSE IF answer.json /= NotJson THEN answer.json
            ELSE IF IsMetaOrAltTask(task_name)
                 THEN JDict([suggestion |-> JStr(raw_text),
                             explanation |-> JStr(<<"AI generated (non-JSON response).">>)])
                 ELSE JDict([error |-> JStr(<<"invalid json">>),
                             raw_output |-> JStr(raw_text)])

\* the validation shared by generate_meta_description and generate_alt_text:
\* the cleaned {suggestion, explanation}, or None
CleanSuggestion(result) ==
    IF HasKey(result, "suggestion") /\ ~HasKey(result, "error")
    THEN [suggestion |-> Strip(StripQuote(Strip(PyStr(result.value["suggestion"])))),
          explanation |->
              IF HasKey(result, "explanation")
              THEN Strip(PyStr(result.value["explanation"]))
              ELSE <<"AI generated suggestion.">>]
    ELSE NoneObj

generate_meta_description(answer) ==
    CleanSuggestion(safe_gemini_call(ai_model_flash, answer, <<"meta_description">>))

\* s.split(sep)[-1]: what follows the last sep
RECURSIVE AfterLast(_, _)
AfterLast(s, sep) ==
    IF \E i \in 1..Len(s) : s[i] = sep
    THEN AfterLast(Drop(s, CHOOSE i \in 1..Len(s) : s[i] = sep), sep)
    ELSE s

\* s.split(sep)[0]: what precedes the first sep
BeforeFirst(s, sep) ==
    IF \E i \in 1..Len(s) : s[i] = sep
    THEN SubSeq(s, 1, (CHOOSE i \in 1..Len(s) :
                          s[i] = sep /\ \A j \in 1..(i - 1) : s[j] /= sep) - 1)
    ELSE s

\* s.rsplit(sep, 1)[0]: what precedes the last sep
BeforeLast(s, sep) ==
    IF \E i \in 1..Len(s) : s[i] = sep
    THEN SubSeq(s, 1, (CHOOSE i \in 1..Len(s) :
                          s[i] = sep /\ \A j \in (i + 1)..Len(s) : s[j] /= sep) - 1)
    ELSE s

Unknown == <<"u", "n", "k", "n", "o", "w", "n">>

\* the filename hint generate_alt_text derives from the image's src
filename_hint(image_src) ==
    LET filename == IF image_src /= <<>>
                    THEN BeforeFirst(AfterLast(image_src, "/"), "?")
                    ELSE Unknown
    IN IF filename /= Unknown
       THEN BeforeLast([i \in 1..Len(filename) |->
                           IF filename[i] \in {"-", "_"} THEN " " ELSE filename[i]], ".")
       ELSE <<"i", "m", "a", "g", "e">>

alt_task_name(image_src) == <<"alt_text:">> \o filename_hint(image_src)

generate_alt_text(image_src, answer) ==
    CleanSuggestion(safe_gemini_call(ai_model_flash, answer, alt_task_name(image_src)))

\* analyze_semantic_relevance: a SemanticAnalysis, or None
analyze_semantic_relevance(answer) ==
    IF ai_model_pro = NoClient THEN NoneObj
    ELSE LET result == safe_gemini_call(ai_model_pro, answer, <<"semantic_relevance">>)
         IN IF /\ HasKey(result, "relevance_score")
               /\ result.value["relevance_score"].type = "int"
               /\ HasKey(result, "justification")
               /\ result.value["justification"].type = "str"
            THEN [relevance_score |-> result.value["relevance_score"].value,
                  justification |-> result.value["justification"].value]
            ELSE NoneObj

EmptyWritingAssistance == [suggestions |-> <<>>, conclusion |-> None]

\* suggest_content_improvements: a WritingAssistance (parse_obj raises on a
\* "suggestions" that is no list or a "conclusion" that is no string or null)
suggest_content_improvements(answer) ==
    IF ai_model_pro = NoClient THEN EmptyWritingAssistance
    ELSE LET result == safe_gemini_call(ai_model_pro, answer, <<"content_improvements">>)
         IN IF HasKey(result, "suggestions")
            THEN IF /\ result.value["suggestions"].type = "list"
                    /\ (HasKey(result, "conclusion") =>
                            result.value["conclusion"].type \in {"str", "null"})
                 THEN [suggestions |-> result.value["suggestions"].value,
                       conclusion |->
                           IF HasKey(result, "conclusion")
                              /\ result.value["conclusion"].type = "str"
                           THEN result.value["conclusion"].value
                           ELSE None]
                 ELSE EmptyWritingAssistance
            ELSE EmptyWritingAssistance

\* suggest_internal_links: the LinkSuggestions among the answer's items
suggest_internal_links(answer) ==
    IF ai_model_pro = NoClient THEN <<>>
    ELSE LET result == safe_gemini_call(ai_model_pro, answer, <<"internal_links">>)
         IN IF result.type = "list"
            THEN LET valid == SelectSeq(result.value,
                                 LAMBDA s : HasKey(s, "anchor_text")
                                            /\ HasKey(s, "suggested_topic"))
                 IN [i \in 1..Len(valid) |->
                        [anchor_text |-> PyStr(valid[i].value["anchor_text"]),
                         suggested_topic |-> PyStr(valid[i].value["suggested_topic"])]]
            ELSE <<>>

\* list.sort(key=seoScore, reverse=True): a stable descending sort
RECURSIVE SortBySeoScore(_)
SortBySeoScore(l) ==
    IF l = <<>> THEN <<>>
    ELSE LET top == CHOOSE i \in 1..Len(l) :
                        /\ \A j \in 1..Len(l) : l[j].seoScore <= l[i].seoScore
                        /\ \A j \in 1..(i - 1) : l[j].seoScore < l[i].seoScore
         IN <<l[top]>> \o SortBySeoScore(SubSeq(l, 1, top - 1) \o Drop(l, top))

\* analyze_competitors: the CompetitorAnalysis's list (CompetitorInfo(**item)
\* raises on an item without an integer seoScore, and the list is then empty)
analyze_competitors(answer) ==
    IF ai_model_pro = NoClient THEN <<>>
    ELSE LET result == safe_gemini_call(ai_model_pro, answer, <<"competitor_analysis">>)
         IN IF HasKey(result, "competitors") /\ result.value["competitors"].type = "list"
            THEN LET items == result.value["competitors"].value
                 IN IF \A i \in 1..Len(items) :
                           HasKey(items[i], "seoScore") /\ items[i].value["seoScore"].type = "int"
                    THEN [i \in 1..Len(items) |-> [seoScore |-> items[i].value["seoScore"].value]]
                    ELSE <<>>
            ELSE <<>>

----------------------------------------------------------------------------
(* MODULE 4: Keyword Engine *)

\* the density cut off after the second decimal
Density_Truncated(body_count, total_words) ==
    IF total_words > 0 THEN (body_count * 10000) \div total_words ELSE 0

\* round(count / total * 100, 2) in hundredths of a percent, ties to even
Density(body_count, total_words) ==
    IF total_words > 0
    THEN LET n == body_count * 10000
             q == n \div total_words
             r == n % total_words
         IN IF 2 * r > total_words \/ (2 * r = total_words /\ q % 2 = 1)
            THEN q + 1
            ELSE q
    ELSE 0

\* perform_keyword_analysis (target_keyword is a string here)
perform_keyword_analysis(keyword, text, title, meta, h1s) ==
    LET keyword_lower == Lower(keyword)
        text_lower == Lower(text)
        title_text == IF title /= NoneObj /\ TagString(title) /= None
                      THEN TagString(title) ELSE <<>>
        meta_text == IF meta /= NoneObj THEN GetOr(meta, "content", <<>>) ELSE <<>>
        h1_text == Join(<<" ">>, [i \in 1..Len(h1s) |-> GetTextStrip(h1s[i])])
        total_words == WordCount(text_lower)
        body_count == Count(text_lower, keyword_lower)
    IN [targetKeyword |-> keyword,
        foundInTitle |-> Contains(Lower(title_text), keyword_lower),
        foundInMeta |-> Contains(Lower(meta_text), keyword_lower),
        foundInH1 |-> Contains(Lower(h1_text), keyword_lower),
        bodyCount |-> body_count,
        density |-> Density(body_count, total_words)]

----------------------------------------------------------------------------
(* The Patch Applier *)

Digits == {"0", "1", "2", "3", "4", "5", "6", "7", "8", "9"}

\* \w
WordChars == {LowerChars[i] : i \in 1..26} \cup {UpperChars[i] : i \in 1..26}
                 \cup Digits \cup {"_"}

\* re.sub(r'[-\s]+', '-', s)
RECURSIVE CollapseDashes(_)
CollapseDashes(s) ==
    IF s = <<>> THEN <<>>
    ELSE IF Head(s) \in WhiteSpace \cup {"-"}
         THEN LET rest == CHOOSE n \in 0..Len(s) :
                              /\ \A i \in 1..n : s[i] \in WhiteSpace \cup {"-"}
                              /\ (n = Len(s) \/ s[n + 1] \notin WhiteSpace \cup {"-"})
              IN <<"-">> \o CollapseDashes(Drop(s, rest))
         ELSE <<Head(s)>> \o CollapseDashes(Tail(s))

\* str.strip('-')
RECURSIVE StripDash(_)
StripDash(s) ==
    IF s /= <<>> /\ Head(s) = "-" THEN StripDash(Tail(s))
    ELSE IF s /= <<>> /\ s[Len(s)] = "-" THEN StripDash(SubSeq(s, 1, Len(s) - 1))
    ELSE s

create_slug(text) ==
    LET lowered == Lower(text)
        kept == SelectSeq(lowered, LAMBDA c : c \in WordChars \cup WhiteSpace \cup {"-"})
    IN <<"/", "b", "l", "o", "g", "/">> \o StripDash(CollapseDashes(kept))

\* the top-level elements of doc replaced by els, as many as before
WithElements(doc, els) ==
    [doc EXCEPT !.head = SubSeq(els, 1, Len(doc.head)),
                !.body = SubSeq(els, Len(doc.head) + 1, Len(els))]

\* s.replace(sub, "", 1)
RemoveFirst(s, sub) ==
    IF sub /= <<>> /\ Contains(s, sub)
    THEN LET i == CHOOSE k \in 0..(Len(s) - Len(sub)) :
                      /\ SubSeq(s, k + 1, k + Len(sub)) = sub
                      /\ \A j \in 0..(k - 1) : SubSeq(s, j + 1, j + Len(sub)) /= sub
         IN SubSeq(s, 1, i) \o Drop(s, i + Len(sub))
    ELSE s

\* re.compile(re.escape(anchor), re.IGNORECASE).search(text)
SearchIgnoreCase(anchor, text) == Contains(Lower(text), Lower(anchor))

\* the conclusion paragraph appended to <body>
ApplyConclusion(doc, writing) ==
    IF doc.hasBody /\ Truthy(writing.conclusion)
    THEN [doc EXCEPT !.body =
             Append(@, Element("p", NoAttrs, <<TextNode(writing.conclusion)>>))]
    ELSE doc

\* soup.find(name, attr=value): does a tag with that attribute value exist
HasTag(doc, name, attr, value) ==
    \E i \in 1..Len(AllTags(doc)) :
        AllTags(doc)[i].name = name /\ Get(AllTags(doc)[i], attr) = value

\* tag[key] = v on the first tag, in document order, among and inside nodes
\* that has the name and the attribute value; found tells whether there is one
RECURSIVE SetOnFirst(_, _, _, _, _, _)
SetOnFirst(nodes, name, attr, value, key, v) ==
    IF nodes = <<>> THEN [found |-> FALSE, nodes |-> <<>>]
    ELSE LET n == Head(nodes)
         IN IF n.name = "#text"
            THEN LET rest == SetOnFirst(Tail(nodes), name, attr, value, key, v)
                 IN [found |-> rest.found, nodes |-> <<n>> \o rest.nodes]
            ELSE IF n.name = name /\ Get(n, attr) = value
            THEN [found |-> TRUE,
                  nodes |-> <<[n EXCEPT !.attrs = SetAttr(@, key, v)]>> \o Tail(nodes)]
            ELSE LET inner == SetOnFirst(n.children, name, attr, value, key, v)
                 IN IF inner.found
                    THEN [found |-> TRUE,
                          nodes |-> <<[n EXCEPT !.children = inner.nodes]>> \o Tail(nodes)]
                    ELSE LET rest == SetOnFirst(Tail(nodes), name, attr, value, key, v)
                         IN [found |-> rest.found, nodes |-> <<n>> \o rest.nodes]

\* the first ai_meta suggestion set on, or inserted as, the meta description
ApplyMeta(doc, suggestions_list) ==
    LET metas == SelectSeq(suggestions_list, LAMBDA sg : sg.type = "ai_meta")
    IN IF metas /= <<>> /\ doc.hasHead
       THEN IF HasTag(doc, "meta", "name", <<"description">>)
            THEN WithElements(doc,
                     SetOnFirst(Elements(doc), "meta", "name", <<"description">>,
                                "content", metas[1].content).nodes)
            ELSE [doc EXCEPT !.head =
                     Append(@, Element("meta",
                                       [name |-> <<"description">>,
                                        content |-> metas[1].content], <<>>))]
       ELSE doc

\* one ai_alt_text suggestion set on the first <img> whose src is its context
ApplyAlt(doc, sugg) ==
    WithElements(doc, SetOnFirst(Elements(doc), "img", "src", sugg.context,
                                 "alt", sugg.content).nodes)

RECURSIVE ApplyAlts(_, _)
ApplyAlts(doc, suggs) ==
    IF suggs = <<>> THEN doc
    ELSE ApplyAlts(ApplyAlt(doc, Head(suggs)), Tail(suggs))

\* one link suggestion among and inside nodes, whose parent tag is parent:
\* the first string that holds the anchor text is replaced by the new
\* hyperlink and by what replace(anchor_text, "", 1) leaves of the string,
\* unless the string's parent is an <a>; found tells whether a string held
\* the anchor text
RECURSIVE LinkInto(_, _, _)
LinkInto(nodes, parent, link_sugg) ==
    IF nodes = <<>> THEN [found |-> FALSE, nodes |-> <<>>]
    ELSE LET n == Head(nodes)
         IN IF n.name = "#text"
            THEN IF SearchIgnoreCase(link_sugg.anchor_text, n.text)
                 THEN LET new_link == InlineLink(create_slug(link_sugg.suggested_topic),
                                                 link_sugg.anchor_text)
                          new_text == RemoveFirst(n.text, link_sugg.anchor_text)
                      IN [found |-> TRUE,
                          nodes |->
                              (IF parent = "a" THEN <<n>>
                               ELSE <<new_link>>
                                    \o (IF new_text /= <<>> THEN <<TextNode(new_text)>>
                                        ELSE <<>>))
                              \o Tail(nodes)]
                 ELSE LET rest == LinkInto(Tail(nodes), parent, link_sugg)
                      IN [found |-> rest.found, nodes |-> <<n>> \o rest.nodes]
            ELSE LET inner == LinkInto(n.children, n.name, link_sugg)
                 IN IF inner.found
                    THEN [found |-> TRUE,
                          nodes |-> <<[n EXCEPT !.children = inner.nodes]>> \o Tail(nodes)]
                    ELSE LET rest == LinkInto(Tail(nodes), parent, link_sugg)
                         IN [found |-> rest.found, nodes |-> <<n>> \o rest.nodes]

\* one link suggestion applied to the document
ApplyLink(doc, link_sugg) ==
    WithElements(doc, LinkInto(Elements(doc), "[document]", link_sugg).nodes)

RECURSIVE ApplyLinks(_, _)
ApplyLinks(doc, link_suggs) ==
    IF link_suggs = <<>> THEN doc
    ELSE ApplyLinks(ApplyLink(doc, Head(link_suggs)), Tail(link_suggs))

\* nodes as prettify() writes them: every string stripped and on a line of
\* its own, a string of white space alone not written
RECURSIVE PrettyNodes(_)
PrettyNodes(nodes) ==
    LET pretty == [i \in 1..Len(nodes) |->
                      IF nodes[i].name = "#text" THEN TextNode(Strip(nodes[i].text))
                      ELSE [nodes[i] EXCEPT !.children = PrettyNodes(@)]]
    IN SelectSeq(pretty, LAMBDA c : c.name /= "#text" \/ c.text /= <<>>)

\* soup.prettify()
Prettify(doc) ==
    [doc EXCEPT !.head = PrettyNodes(@), !.body = PrettyNodes(@)]

\* apply_all_suggestions: the document patched in place, and its serialization
PatchedSoup(doc, suggestions_list, writing, links) ==
    LET alt_suggs == SelectSeq(suggestions_list,
                         LAMBDA sg : sg.type = "ai_alt_text" /\ Truthy(sg.context))
    IN ApplyLinks(ApplyAlts(ApplyMeta(ApplyConclusion(doc, writing), suggestions_list),
                            alt_suggs),
                  links.ai_suggestions)

apply_all_suggestions(doc, suggestions_list, writing, links) ==
    Prettify(PatchedSoup(doc, suggestions_list, writing, links))

----------------------------------------------------------------------------
(* MODULE 2: the /analyze endpoint *)

missing_title_penalty == 10
missing_meta_penalty == 10
missing_h1_penalty == 10
missing_alt_penalty == 5
heading_skip_penalty == 5

Issue(type, message) == [type |-> type, message |-> message]

Suggestion(type, message, content, explanation, gain, context) ==
    [type |-> type, message |-> message, content |-> content,
     explanation |-> explanation, context |-> context,
     potential_score_gain |-> gain]

\* the provider gave no answer: no client, an exception (quota or other), or
\* an empty text
NoAnswer(client, answer) ==
    client = NoClient \/ answer.exc /= "none" \/ Strip(answer.text) = <<>>

\* the string the provider answered with, when its answer is a single
\* string: text that is no JSON, or text that is a JSON string; else None
SingleString(client, answer) ==
    IF NoAnswer(client, answer) THEN None
    ELSE IF answer.json = NotJson THEN Strip(answer.text)
    ELSE IF answer.json.type = "str" THEN answer.json.value
    ELSE None

\* a call of safe_gemini_call as the log of calls keeps it: its task, the
\* image it is about, whether the provider gave no answer, and the single
\* string it answered with, if any
AiCall(task_name, image_src, answer) ==
    [task |-> task_name, src |-> image_src,
     failed |-> NoAnswer(ai_model_flash, answer),
     string |-> SingleString(ai_model_flash, answer)]

\* raise HTTPException(status_code=500, ...): the caller gets no report
HttpError == [status |-> 500, body |-> NoneObj]

NoResponse == [status |-> 0, body |-> NoneObj]

\* the except clause logging the exception and going on
RaiseHttp500_Swallowed ==
    /\ pc' = "log"
    /\ response' = response

\* the except clause of analyze_seo (lines 733-737)
RaiseHttp500 ==
    /\ pc' = "done"
    /\ response' = HttpError

\* lines 614-619: parse, extract the text, read the keyword, ask for
\* writing assistance
Parse(answers) ==
    /\ pc = "start"
    /\ \/ /\ request.config = NoneObj
          /\ RaiseHttp500
          /\ UNCHANGED <<soup, page_text, target_keyword, writing_report, ai_calls>>
       \/ /\ request.config /= NoneObj
          /\ soup' = Decomposed(request.content)
          /\ page_text' = get_page_text(request.content)
          /\ target_keyword' = DictGet(request.config, "targetKeyword")
          /\ \E answer \in answers :
                /\ writing_report' = suggest_content_improvements(answer)
                /\ ai_calls' =
                       IF ai_model_pro = NoClient THEN ai_calls
                       ELSE Append(ai_calls, AiCall(<<"content_improvements">>, <<>>, answer))
          /\ pc' = "title"
          /\ UNCHANGED response
    /\ UNCHANGED <<request, ai_model_flash, ai_model_pro, issues, suggestions,
                   seo_score, title_tag, meta_tag, h1_tags, img_index,
                   link_analysis, keyword_report, semantic_report,
                   ai_link_suggestions, competitor_report, link_report,
                   applied_html, db_rows>>

NoFinding == [issues |-> <<>>, penalty |-> 0]

\* lines 622-627: what the title rule finds
TitleCheck(tag) ==
    IF tag = NoneObj \/ ~Truthy(TagString(tag))
    THEN [issues |-> <<Issue("error", <<"Missing <title> tag.">>)>>,
          penalty |-> missing_title_penalty]
    ELSE IF Len(TagString(tag)) > 60
    THEN [issues |-> <<Issue("warning",
                             <<"Title is too long. Aim for under 60 characters.">>)>>,
          penalty |-> 3]
    ELSE NoFinding

\* lines 621-627
TitleRule ==
    /\ pc = "title"
    /\ title_tag' = Find(soup, "title")
    /\ issues' = issues \o TitleCheck(Find(soup, "title")).issues
    /\ seo_score' = seo_score - TitleCheck(Find(soup, "title")).penalty
    /\ pc' = "meta"
    /\ UNCHANGED <<request, ai_model_flash, ai_model_pro, soup, page_text,
                   target_keyword, writing_report, suggestions, meta_tag,
                   h1_tags, img_index, link_analysis, keyword_report,
                   semantic_report, ai_link_suggestions, competitor_report,
                   link_report, applied_html, ai_calls, db_rows,
                   response>>

\* lines 629-644
MetaRule(answers) ==
    /\ pc = "meta"
    /\ meta_tag' = FindMetaDescription(soup)
    /\ LET tag == FindMetaDescription(soup)
       IN IF tag = NoneObj \/ ~Truthy(Get(tag, "content"))
          THEN /\ seo_score' = seo_score - missing_meta_penalty
               /\ issues' = Append(issues,
                     Issue("error", <<"Missing <meta name=\"description\"> tag.">>))
               /\ \E answer \in answers :
                     LET ai_meta_data == generate_meta_description(answer)
                     IN /\ ai_calls' = Append(ai_calls,
                                           AiCall(<<"meta_description">>, <<>>, answer))
                        /\ suggestions' =
                               IF ai_meta_data /= NoneObj
                               THEN Append(suggestions,
                                        Suggestion("ai_meta",
                                                   <<"AI-generated meta description:">>,
                                                   ai_meta_data.suggestion,
                                                   ai_meta_data.explanation,
                                                   missing_meta_penalty, None))
                               ELSE suggestions
          ELSE IF Len(GetOr(tag, "content", <<>>)) > 160
          THEN /\ issues' = Append(issues,
                     Issue("warning",
                           <<"Meta description is too long. Aim for under 160 characters.">>))
               /\ seo_score' = seo_score - 3
               /\ UNCHANGED <<suggestions, ai_calls>>
          ELSE UNCHANGED <<issues, seo_score, suggestions, ai_calls>>
    /\ pc' = "h1"
    /\ UNCHANGED <<request, ai_model_flash, ai_model_pro, soup, page_text,
                   target_keyword, writing_report, title_tag, h1_tags,
                   img_index, link_analysis, keyword_report, semantic_report,
                   ai_link_suggestions, competitor_report, link_report,
                   applied_html, db_rows, response>>

\* the h1 rule objecting to a single <h1> too
H1Check_OffByOne(n) ==
    IF n = 0
    THEN [issues |-> <<Issue("error", <<"Missing <h1> tag.">>)>>,
          penalty |-> missing_h1_penalty]
    ELSE [issues |-> <<Issue("warning",
                             <<"Found ", ToString(n),
                               " <h1> tags. A page should only have one.">>)>>,
          penalty |-> n * 2]

\* lines 647-652: what the h1 rule finds among n <h1> elements
H1Check(n) ==
    IF n = 0
    THEN [issues |-> <<Issue("error", <<"Missing <h1> tag.">>)>>,
          penalty |-> missing_h1_penalty]
    ELSE IF n > 1
    THEN [issues |-> <<Issue("warning",
                             <<"Found ", ToString(n),
                               " <h1> tags. A page should only have one.">>)>>,
          penalty |-> (n - 1) * 2]
    ELSE NoFinding

\* lines 646-654
H1Rule ==
    /\ pc = "h1"
    /\ h1_tags' = FindAll(soup, {"h1"})
    /\ issues' = issues \o H1Check(Len(FindAll(soup, {"h1"}))).issues
    /\ seo_score' = seo_score - H1Check(Len(FindAll(soup, {"h1"}))).penalty
    /\ img_index' = 0
    /\ pc' = IF FindAll(soup, {"img"}) = <<>> THEN "links" ELSE "images"
    /\ UNCHANGED <<request, ai_model_flash, ai_model_pro, soup, page_text,
                   target_keyword, writing_report, suggestions, title_tag,
                   meta_tag, link_analysis, keyword_report, semantic_report,
                   ai_link_suggestions, competitor_report, link_report,
                   applied_html, ai_calls, db_rows, response>>

\* the test that takes alt="" for an alt text
MissingAlt_AbsentOnly(img) == Get(img, "alt") = None

\* line 657: not img.get('alt')
MissingAlt(img) == ~Truthy(Get(img, "alt"))

\* the loop going through the images from the last to the first
ImageRule_Backwards(answers) ==
    /\ pc = "images"
    /\ LET found == FindAll(soup, {"img"})
           images == [i \in 1..Len(found) |-> found[Len(found) + 1 - i]]
           img == images[img_index + 1]
           img_src == GetOr(img, "src", Unknown)
       IN /\ IF MissingAlt(img)
             THEN /\ issues' = Append(issues,
                        Issue("warning",
                              <<"Image is missing alt text (src: ">> \o Take(img_src, 50)
                                  \o <<"...).">>))
                  /\ seo_score' = seo_score - missing_alt_penalty
                  /\ \E answer \in answers :
                        LET ai_alt_data == generate_alt_text(img_src, answer)
                        IN /\ ai_calls' = Append(ai_calls,
                                              AiCall(alt_task_name(img_src), img_src, answer))
                           /\ suggestions' =
                                  IF ai_alt_data /= NoneObj
                                  THEN Append(suggestions,
                                           Suggestion("ai_alt_text",
                                                      <<"AI-generated alt text for \"">>
                                                          \o Take(img_src, 50) \o <<"...\":">>,
                                                      ai_alt_data.suggestion,
                                                      ai_alt_data.explanation,
                                                      missing_alt_penalty, img_src))
                                  ELSE suggestions
             ELSE UNCHANGED <<issues, seo_score, ai_calls, suggestions>>
          /\ img_index' = img_index + 1
          /\ pc' = IF img_index + 1 = Len(images) THEN "links" ELSE "images"
    /\ UNCHANGED <<request, ai_model_flash, ai_model_pro, soup, page_text,
                   target_keyword, writing_report, title_tag, meta_tag, h1_tags,
                   link_analysis, keyword_report, semantic_report,
                   ai_link_suggestions, competitor_report, link_report,
                   applied_html, db_rows, response>>

\* lines 655-669: one turn of the loop over the images
ImageRule(answers) ==
    /\ pc = "images"
    /\ LET images == FindAll(soup, {"img"})
           img == images[img_index + 1]
           img_src == GetOr(img, "src", Unknown)
       IN /\ IF MissingAlt(img)
             THEN /\ issues' = Append(issues,
                        Issue("warning",
                              <<"Image is missing alt text (src: ">> \o Take(img_src, 50)
                                  \o <<"...).">>))
                  /\ seo_score' = seo_score - missing_alt_penalty
                  /\ \E answer \in answers :
                        LET ai_alt_data == generate_alt_text(img_src, answer)
                        IN /\ ai_calls' = Append(ai_calls,
                                              AiCall(alt_task_name(img_src), img_src, answer))
                           /\ suggestions' =
                                  IF ai_alt_data /= NoneObj
                                  THEN Append(suggestions,
                                           Suggestion("ai_alt_text",
                                                      <<"AI-generated alt text for \"">>
                                                          \o Take(img_src, 50) \o <<"...\":">>,
                                                      ai_alt_data.suggestion,
                                                      ai_alt_data.explanation,
                                                      missing_alt_penalty, img_src))
                                  ELSE suggestions
             ELSE UNCHANGED <<issues, seo_score, ai_calls, suggestions>>
          /\ img_index' = img_index + 1
          /\ pc' = IF img_index + 1 = Len(images) THEN "links" ELSE "images"
    /\ UNCHANGED <<request, ai_model_flash, ai_model_pro, soup, page_text,
                   target_keyword, writing_report, title_tag, meta_tag, h1_tags,
                   link_analysis, keyword_report, semantic_report,
                   ai_link_suggestions, competitor_report, link_report,
                   applied_html, db_rows, response>>

\* urlparse(href).netloc: what lies between "//" after the scheme and the
\* next "/", "?" or "#"
Netloc(href) ==
    LET scheme == BeforeFirst(href, ":")
        rest == Drop(href, Len(scheme) + 1)
    IN IF Len(scheme) < Len(href) /\ StartsWith(rest, <<"/", "/">>)
       THEN BeforeFirst(BeforeFirst(BeforeFirst(Drop(rest, 2), "/"), "?"), "#")
       ELSE <<>>

Http == <<"h", "t", "t", "p">>
Mailto == <<"m", "a", "i", "l", "t", "o", ":">>

\* lines 671-674: the hrefs of the document's links, by kind
LinkLists(doc) ==
    LET links == FindAll(doc, {"a"})
        hrefs == [i \in 1..Len(links) |-> Get(links[i], "href")]
        internal == SelectSeq(hrefs, LAMBDA h : Truthy(h) /\ ~StartsWith(h, Http)
                                                /\ ~StartsWith(h, Mailto))
        external == SelectSeq(hrefs, LAMBDA h : Truthy(h) /\ StartsWith(h, Http))
    IN [internal_links |-> internal,
        external_links |-> external,
        external_domains |-> {Netloc(external[i]) : i \in 1..Len(external)} \ {<<>>}]

\* lines 671-680
LinksRule ==
    /\ pc = "links"
    /\ link_analysis' = LinkLists(soup)
    /\ LET found == LinkLists(soup)
           no_internal == IF found.internal_links = <<>>
                          THEN <<Issue("warning",
                                       <<"No internal links found. Internal links help SEO.">>)>>
                          ELSE <<>>
           no_external == IF found.external_links = <<>>
                          THEN <<Issue("info",
                                       <<"No external links found. Linking to reputable external sources can be beneficial.">>)>>
                          ELSE <<>>
       IN /\ issues' = issues \o no_internal \o no_external
          /\ seo_score' = IF found.internal_links = <<>> THEN seo_score - 2 ELSE seo_score
    /\ pc' = "headings"
    /\ UNCHANGED <<request, ai_model_flash, ai_model_pro, soup, page_text,
                   target_keyword, writing_report, suggestions, title_tag,
                   meta_tag, h1_tags, img_index, keyword_report,
                   semantic_report, ai_link_suggestions, competitor_report,
                   link_report, applied_html, ai_calls, db_rows,
                   response>>

HeadingNames == <<"h1", "h2", "h3", "h4", "h5", "h6">>

\* int(h.name[1])
HeadingLevel(name) == CHOOSE l \in 1..Len(HeadingNames) : HeadingNames[l] = name

\* the loop keeping last_level where it was when a heading skips
RECURSIVE HeadingLoop_KeepLast(_, _)
HeadingLoop_KeepLast(headings, last_level) ==
    IF headings = <<>> THEN NoFinding
    ELSE LET h == Head(headings)
             current_level == HeadingLevel(h.name)
         IN IF current_level > last_level + 1
            THEN LET rest == HeadingLoop_KeepLast(Tail(headings), last_level)
                 IN [issues |->
                         <<Issue("warning",
                                 <<"Heading hierarchy skip: <", h.name, "> found after <h",
                                   ToString(last_level), ">. Use <h",
                                   ToString(last_level + 1), "> first.">>)>>
                         \o rest.issues,
                     penalty |-> heading_skip_penalty + rest.penalty]
            ELSE HeadingLoop_KeepLast(Tail(headings), current_level)

\* lines 683-692: the loop over the headings, from last_level on; the result
\* is the issues it appends and the penalty it subtracts
RECURSIVE HeadingLoop(_, _)
HeadingLoop(headings, last_level) ==
    IF headings = <<>> THEN NoFinding
    ELSE LET h == Head(headings)
             current_level == HeadingLevel(h.name)
             rest == HeadingLoop(Tail(headings), current_level)
         IN IF current_level > last_level + 1
            THEN [issues |->
                      <<Issue("warning",
                              <<"Heading hierarchy skip: <", h.name, "> found after <h",
                                ToString(last_level), ">. Use <h",
                                ToString(last_level + 1), "> first.">>)>>
                      \o rest.issues,
                  penalty |-> heading_skip_penalty + rest.penalty]
            ELSE rest

\* lines 682-692
HeadingRule ==
    /\ pc = "headings"
    /\ LET walk == HeadingLoop(FindAll(soup, {"h1", "h2", "h3", "h4", "h5", "h6"}), 0)
       IN /\ issues' = issues \o walk.issues
          /\ seo_score' = seo_score - walk.penalty
    /\ pc' = "keyword"
    /\ UNCHANGED <<request, ai_model_flash, ai_model_pro, soup, page_text,
                   target_keyword, writing_report, suggestions, title_tag,
                   meta_tag, h1_tags, img_index, link_analysis, keyword_report,
                   semantic_report, ai_link_suggestions, competitor_report,
                   link_report, applied_html, ai_calls, db_rows,
                   response>>

\* lines 708-720: the issues and the score change of the keyword rules
KeywordIssues(keyword, semantic, report) ==
    (IF semantic /= NoneObj /\ semantic.relevance_score < 40
     THEN <<Issue("warning", <<"Content relevance to '">> \o keyword \o <<"' is low.">>)>>
     ELSE <<>>)
    \o (IF ~report.foundInTitle
        THEN <<Issue("info", <<"Target keyword '">> \o keyword
                                 \o <<"' not found in <title>.">>)>>
        ELSE <<>>)
    \o (IF ~report.foundInH1
        THEN <<Issue("info", <<"Target keyword '">> \o keyword
                                 \o <<"' not found in <h1>.">>)>>
        ELSE <<>>)

\* the score change of the keyword rules with the total brought into 0..100
\* after the relevance rule
KeywordDelta_ClampedBetween(semantic, report) ==
    LET relevance == IF semantic = NoneObj THEN 0
                     ELSE IF semantic.relevance_score < 40 THEN -10
                     ELSE IF semantic.relevance_score > 80 THEN 5
                     ELSE 0
        clamped == Max(0, Min(100, seo_score + relevance))
    IN clamped - (IF ~report.foundInTitle THEN 3 ELSE 0)
               - (IF ~report.foundInH1 THEN 3 ELSE 0)
               - seo_score

KeywordDelta(semantic, report) ==
    (IF semantic = NoneObj THEN 0
     ELSE IF semantic.relevance_score < 40 THEN -10
     ELSE IF semantic.relevance_score > 80 THEN 5
     ELSE 0)
    - (IF ~report.foundInTitle THEN 3 ELSE 0)
    - (IF ~report.foundInH1 THEN 3 ELSE 0)

\* the safe_gemini_call calls of the keyword block, made only with a client
KeywordCalls(sa, la, ca) ==
    IF ai_model_pro = NoClient THEN <<>>
    ELSE <<AiCall(<<"semantic_relevance">>, <<>>, sa),
           AiCall(<<"internal_links">>, <<>>, la),
           AiCall(<<"competitor_analysis">>, <<>>, ca)>>

\* lines 694-720
KeywordRule(semantic_answers, link_answers, competitor_answers) ==
    /\ pc = "keyword"
    /\ \/ /\ ~Truthy(target_keyword)
          /\ keyword_report' = NoneObj
          /\ semantic_report' = NoneObj
          /\ ai_link_suggestions' = <<>>
          /\ competitor_report' = NoneObj
          /\ pc' = "apply"
          /\ UNCHANGED <<issues, seo_score, ai_calls, response>>
       \/ \* target_keyword.lower() raises AttributeError
          /\ target_keyword = NonString
          /\ RaiseHttp500
          /\ UNCHANGED <<keyword_report, semantic_report, ai_link_suggestions,
                         competitor_report, issues, seo_score, ai_calls>>
       \/ /\ Truthy(target_keyword)
          /\ target_keyword /= NonString
          /\ \E sa \in semantic_answers, la \in link_answers, ca \in competitor_answers :
                LET report == perform_keyword_analysis(target_keyword, page_text,
                                                       title_tag, meta_tag, h1_tags)
                    semantic == analyze_semantic_relevance(sa)
                IN /\ keyword_report' = report
                   /\ semantic_report' = semantic
                   /\ ai_link_suggestions' = suggest_internal_links(la)
                   /\ competitor_report' =
                          [competitors |-> SortBySeoScore(analyze_competitors(ca))]
                   /\ issues' = issues \o KeywordIssues(target_keyword, semantic, report)
                   /\ seo_score' = seo_score + KeywordDelta(semantic, report)
                   /\ ai_calls' = ai_calls \o KeywordCalls(sa, la, ca)
          /\ pc' = "apply"
          /\ UNCHANGED response
    /\ UNCHANGED <<request, ai_model_flash, ai_model_pro, soup, page_text,
                   target_keyword, writing_report, suggestions, title_tag,
                   meta_tag, h1_tags, img_index, link_analysis, link_report,
                   applied_html, db_rows>>

\* lines 723-730
ApplySuggestions ==
    /\ pc = "apply"
    /\ LET report == [internal_link_count |-> Len(link_analysis.internal_links),
                      external_link_count |-> Len(link_analysis.external_links),
                      external_domains |-> link_analysis.external_domains,
                      ai_suggestions |-> ai_link_suggestions]
       IN /\ link_report' = report
          /\ soup' = PatchedSoup(soup, suggestions, writing_report, report)
          /\ applied_html' = apply_all_suggestions(soup, suggestions, writing_report, report)
    /\ pc' = "log"
    /\ UNCHANGED <<request, ai_model_flash, ai_model_pro, page_text,
                   target_keyword, writing_report, issues, suggestions,
                   seo_score, title_tag, meta_tag, h1_tags, img_index,
                   link_analysis, keyword_report, semantic_report,
                   ai_link_suggestions, competitor_report,
                   ai_calls, db_rows, response>>

\* the clamp without its floor
Clamp_NoFloor(score) == Min(100, score)

\* line 739
Clamp(score) == Max(0, Min(100, score))

\* what the suggestion-logging step can meet: a local host (nothing is
\* written), a database that takes the rows, one that fails (the except
\* clause rolls back), and one whose rollback or close raises in turn
DbOutcomes == {"local", "saved", "failed", "rollback_raises"}

\* lines 739 and 785-796
SeoResponse ==
    [status |-> 200,
     body |-> [seoScore |-> Clamp(seo_score),
               issues |-> issues,
               suggestions |-> suggestions,
               keywordAnalysis |-> keyword_report,
               semanticAnalysis |-> semantic_report,
               writingAssistance |-> writing_report,
               linkAnalysis |-> link_report,
               appliedHtml |-> applied_html,
               competitorAnalysis |-> competitor_report]]

\* lines 739-796: clamp the score, log the suggestions, return the report
SaveSuggestions ==
    /\ pc = "log"
    /\ \E outcome \in DbOutcomes :
          /\ db_rows' =
                 CASE outcome = "saved" -> [db_rows EXCEPT !.committed = @ \o suggestions]
                   [] outcome = "failed" -> [db_rows EXCEPT !.rolled_back = TRUE]
                   [] OTHER -> db_rows
          /\ response' = IF outcome = "rollback_raises" THEN HttpError ELSE SeoResponse
    /\ pc' = "done"
    /\ UNCHANGED <<request, ai_model_flash, ai_model_pro, soup, page_text,
                   target_keyword, writing_report, issues, suggestions,
                   seo_score, title_tag, meta_tag, h1_tags, img_index,
                   link_analysis, keyword_report, semantic_report,
                   ai_link_suggestions, competitor_report, link_report,
                   applied_html, ai_calls>>

----------------------------------------------------------------------------
(* The requests and the provider's answers the model is run on *)

MaxHeadings == 3
MaxImages == 2
MaxBulkImages == 13
MaxWords == 8

Client == "gemini-flash-latest"

Chars(n, c) == [i \in 1..n |-> c]

Kw == <<"s", "e", "o">>
KwTitle == <<"S", "E", "O", " ", "t", "i", "p", "s">>
PlainTitle == <<"H", "o", "m", "e">>
SrcA == <<"i", "/", "a", "-", "b", ".", "p", "n", "g">>
SrcB == <<"c", ".", "j", "p", "g">>
AltText == <<"p", "i", "c">>
InternalHref == <<"/", "p">>
ExternalHref == <<"h", "t", "t", "p", ":", "/", "/", "x", ".", "c", "o", "/", "p">>
MailHref == Mailto \o <<"a", "@", "x">>

Title(t) == Element("title", NoAttrs, IF t = None THEN <<>> ELSE <<TextNode(t)>>)
MetaDescription(attrs) == Element("meta", SetAttr(attrs, "name", <<"description">>), <<>>)
Heading(level, t) == Element(HeadingNames[level], NoAttrs, <<TextNode(t)>>)
Img(attrs) == Element("img", attrs, <<>>)
Link(attrs, t) == Element("a", attrs, <<TextNode(t)>>)
Para(children) == Element("p", NoAttrs, children)

Doc(head, body) == [hasHead |-> TRUE, head |-> head, hasBody |-> TRUE, body |-> body]

\* the sequences over S of length at most n
SeqsUpTo(S, n) == UNION {[1..k -> S] : k \in 0..n}

TitleKinds == {<<>>, <<Title(None)>>, <<Title(PlainTitle)>>, <<Title(KwTitle)>>,
               <<Title(Chars(60, "x"))>>, <<Title(Chars(61, "x"))>>}

MetaKinds == {<<>>, <<MetaDescription(NoAttrs)>>,
              <<MetaDescription([content |-> <<>>])>>,
              <<MetaDescription([content |-> Kw])>>,
              <<MetaDescription([content |-> Chars(160, "y")])>>,
              <<MetaDescription([content |-> Chars(161, "y")])>>}

ImgKinds == {Img(a) : a \in {NoAttrs, [src |-> <<>>], [src |-> SrcA],
                             [alt |-> <<>>], [alt |-> AltText],
                             [src |-> <<>>, alt |-> <<>>], [src |-> SrcA, alt |-> <<>>],
                             [src |-> <<>>, alt |-> AltText],
                             [src |-> SrcA, alt |-> AltText]}}

LinkKinds == {Link(NoAttrs, <<"t">>), Link([href |-> <<>>], <<"t">>),
              Link([href |-> InternalHref], <<"t">>),
              Link([href |-> ExternalHref], <<"t">>),
              Link([href |-> MailHref], <<"t">>)}

\* a head and a body no rule objects to (but for the keyword)
GoodHead == <<Title(KwTitle), MetaDescription([content |-> Kw])>>
GoodBody == <<Heading(1, <<"S", "e", "o">>), Link([href |-> InternalHref], <<"t">>),
              Link([href |-> ExternalHref], <<"u">>)>>

Configs == {NoneObj, <<>>, [targetKeyword |-> <<>>], [targetKeyword |-> Kw],
            [targetKeyword |-> NonString]}

Req(doc, contentType, config, client) ==
    [content |-> doc, contentType |-> contentType, config |-> config, client |-> client]

\* heads of every kind under every config, with no client
HeadRequests ==
    {Req(Doc(t \o m, GoodBody), "html", cfg, NoClient) :
        t \in TitleKinds, m \in MetaKinds, cfg \in Configs}

\* every sequence of headings
HeadingRequests ==
    {Req(Doc(GoodHead, [i \in 1..Len(hs) |-> Heading(hs[i], <<"x">>)]
                       \o <<Link([href |-> InternalHref], <<"t">>)>>),
         "html", <<>>, NoClient) :
        hs \in SeqsUpTo(1..6, MaxHeadings)}

\* every sequence of images, with no client
ImageRequests ==
    {Req(Doc(GoodHead, GoodBody \o imgs), "html", <<>>, NoClient) :
        imgs \in SeqsUpTo(ImgKinds, MaxImages)}

\* images that lack an alt text, with a client to ask
AltRequests ==
    {Req(Doc(GoodHead, GoodBody \o imgs), "html", <<>>, Client) :
        imgs \in SeqsUpTo({Img(NoAttrs), Img([src |-> <<>>]), Img([src |-> SrcA]),
                           Img([src |-> SrcA, alt |-> AltText])}, MaxImages)}

\* links of every kind, one or two
LinkRequests ==
    {Req(Doc(GoodHead, <<Heading(1, <<"x">>)>> \o ls), "html", <<>>, NoClient) :
        ls \in SeqsUpTo(LinkKinds, 2)}

\* pages that break every rule, with many images
BulkRequests ==
    {Req(Doc(<<>>, <<Heading(2, <<"x">>)>> \o [i \in 1..n |-> Img(NoAttrs)]),
         "html", [targetKeyword |-> Kw], NoClient) :
        n \in 0..MaxBulkImages}

\* <html><head></head><body><h1>x</h1></body></html>
BareDocument == Doc(<<>>, <<Heading(1, <<"x">>)>>)

\* a page with nothing to object to
GoodDocument == Doc(GoodHead, GoodBody)

\* a page that breaks the rules in the order of their evaluation
BadDocument ==
    Doc(<<Element("script", NoAttrs, <<TextNode(Kw)>>)>>,
        <<Heading(3, <<"x">>), Img([src |-> SrcB]), Para(<<TextNode(<<"t", " ", "s", "e", "o">>)>>)>>)

\* the same pages with a client, under every config and content type, with
\* and without a <head> element
ClientRequests ==
    {Req([d EXCEPT !.hasHead = hh], ct, cfg, Client) :
        d \in {BareDocument, GoodDocument, BadDocument}, hh \in BOOLEAN,
        ct \in {"html", "text"}, cfg \in Configs}
    \cup {Req(BareDocument, ct, <<>>, NoClient) : ct \in {"html", "text"}}

\* a head no rule objects to and no string of which holds the letter t
PlainHead == <<Title(PlainTitle), MetaDescription([content |-> Kw])>>

\* bodies for the link suggestion whose anchor text is "t"
AnchorBodies ==
    {<<Element("a", [href |-> InternalHref],
               <<Element("b", NoAttrs, <<TextNode(<<"t">>)>>)>>)>>,
     <<Link([href |-> InternalHref], <<"t">>), Para(<<TextNode(<<"t">>)>>)>>,
     <<Para(<<TextNode(<<"a", " ", "t", " ", "b">>)>>)>>,
     <<Para(<<TextNode(<<"T">>)>>)>>,
     <<Para(<<TextNode(<<"t">>)>>)>>,
     <<Para(<<TextNode(<<"t", " ", "x">>)>>)>>,
     <<Para(<<TextNode(<<"x">>), Element("b", NoAttrs, <<TextNode(<<"t">>)>>)>>)>>,
     <<Para(<<TextNode(<<"x">>)>>)>>}

\* pages a link suggestion may be applied to, with a client and the keyword
AnchorRequests ==
    {Req(Doc(PlainHead, <<Heading(1, <<"S", "e", "o">>)>> \o b), "html",
         [targetKeyword |-> Kw], Client) : b \in AnchorBodies}

\* pages whose meta description is there but empty, or stands in the body,
\* with a client to ask
MetaRequests ==
    {Req(Doc(<<Title(PlainTitle), MetaDescription([content |-> <<>>])>>, GoodBody),
         "html", <<>>, Client),
     Req(Doc(<<Title(PlainTitle)>>,
             <<MetaDescription([content |-> <<>>])>> \o GoodBody),
         "html", <<>>, Client)}

\* a page with no meta description and two images without alt text, with a
\* client to ask
SuggestionRequests ==
    {Req(Doc(<<Title(PlainTitle)>>, GoodBody \o <<Img([src |-> SrcA]), Img([src |-> SrcB])>>),
         "html", <<>>, Client)}

\* k times the word w0 and then n - k times the word w, a space between them
WordsText(k, w0, n, w) ==
    Join(<<" ">>, [i \in 1..n |-> IF i <= k THEN w0 ELSE w])

\* the texts whose density is taken
DensityTexts ==
    {WordsText(k, w0, n, <<"w">>) :
        k \in 0..2, n \in 0..MaxWords,
        w0 \in {Kw, <<"S", "E", "O">>, Kw \o Kw, <<"x">> \o Kw}}
    \cup {WordsText(k, Kw, 32, <<"w">>) : k \in {1, 3}}
    \cup {<<" ">>}

\* pages of one paragraph, under the keyword in lower and in mixed case
DensityRequests ==
    {Req(Doc(<<>>, <<Para(<<TextNode(t)>>)>>), "html", [targetKeyword |-> kw], NoClient) :
        t \in DensityTexts, kw \in {Kw, <<"S", "e", "O">>}}

Requests == HeadRequests \cup HeadingRequests \cup ImageRequests \cup AltRequests
                \cup LinkRequests \cup BulkRequests \cup ClientRequests
                \cup AnchorRequests \cup MetaRequests \cup DensityRequests
                \cup SuggestionRequests

Suggested == <<"A", "l", "t">>
Why == <<"w", "h", "y">>

\* what the provider may answer to a meta-description or alt-text prompt
SuggestionAnswers ==
    {Raises("quota"), Raises("other"),
     Answer(<<>>, NotJson),
     Answer(<<" ", "\n">>, NotJson),
     Answer(<<"{">>, JDict([suggestion |-> JStr(Suggested), explanation |-> JStr(Why)])),
     Fenced(Answer(<<"{">>, JDict([suggestion |-> JStr(<<" ", "\"">> \o Suggested \o <<"\"">>)]))),
     Answer(<<"{">>, JDict([explanation |-> JStr(Why)])),
     Answer(<<"{">>, JDict([suggestion |-> JStr(Suggested), error |-> JStr(Why)])),
     Answer(<<"{">>, JDict([suggestion |-> JStr(<<>>)])),
     Answer(<<"\"">>, JStr(Suggested)),
     Answer(<<"[">>, JList(<<>>)),
     Answer(Suggested, NotJson)}

\* ... to the writing-assistance prompt
WritingAnswers ==
    {Raises("other"),
     Answer(<<"{">>, JDict([suggestions |-> JList(<<>>), conclusion |-> JNull])),
     Answer(<<"{">>, JDict([suggestions |-> JList(<<>>), conclusion |-> JStr(<<"E", "n", "d">>)])),
     Answer(<<"{">>, JDict([suggestions |-> JStr(<<"x">>)]))}

RelevanceScores == {39, 40, 80, 81}

\* ... to the semantic-relevance prompt
SemanticAnswers ==
    {Raises("quota"), Answer(<<"{">>, JDict([relevance_score |-> JStr(<<"9">>)]))}
    \cup {Answer(<<"{">>, JDict([relevance_score |-> JInt(n),
                                 justification |-> JStr(Why)])) : n \in RelevanceScores}

\* ... to the internal-links prompt
LinkAnswers ==
    {Raises("other"), Answer(<<"[">>, JList(<<>>)),
     Answer(<<"[">>, JList(<<JDict([anchor_text |-> JStr(<<"t">>),
                                   suggested_topic |-> JStr(<<"T", " ", "x">>)]),
                             JDict([anchor_text |-> JStr(<<"t">>)])>>))}

\* ... to the competitor prompt
CompetitorAnswers ==
    {Raises("other"),
     Answer(<<"{">>, JDict([competitors |->
                               JList(<<JDict([seoScore |-> JInt(50)]),
                                       JDict([seoScore |-> JInt(88)])>>)]))}

----------------------------------------------------------------------------
(* The specification *)

InitWith(requests) ==
    \E r \in requests :
       /\ request = [content |-> r.content, contentType |-> r.contentType,
                     config |-> r.config]
       /\ ai_model_flash = r.client
       /\ ai_model_pro = r.client
       /\ pc = "start"
       /\ issues = <<>>
       /\ suggestions = <<>>
       /\ seo_score = 100
       /\ soup = Unbound
       /\ page_text = Unbound
       /\ target_keyword = Unbound
       /\ writing_report = Unbound
       /\ title_tag = Unbound
       /\ meta_tag = Unbound
       /\ h1_tags = Unbound
       /\ img_index = 0
       /\ link_analysis = Unbound
       /\ keyword_report = Unbound
       /\ semantic_report = Unbound
       /\ ai_link_suggestions = Unbound
       /\ competitor_report = Unbound
       /\ link_report = Unbound
       /\ applied_html = Unbound
       /\ ai_calls = <<>>
       /\ db_rows = [committed |-> <<>>, rolled_back |-> FALSE]
       /\ response = NoResponse

Init == InitWith(Requests)

Next ==
    \/ Parse(WritingAnswers)
    \/ TitleRule
    \/ MetaRule(SuggestionAnswers)
    \/ H1Rule
    \/ ImageRule(SuggestionAnswers)
    \/ LinksRule
    \/ HeadingRule
    \/ KeywordRule(SemanticAnswers, LinkAnswers, CompetitorAnswers)
    \/ ApplySuggestions
    \/ SaveSuggestions

Spec == Init /\ [][Next]_vars

----------------------------------------------------------------------------
(* What the claims speak of *)

\* analyze_seo has returned a report
Returned == pc = "done" /\ response.status = 200

Report == response.body

MissingTitleIssue == Issue("error", <<"Missing <title> tag.">>)
MissingMetaIssue == Issue("error", <<"Missing <meta name=\"description\"> tag.">>)
NoInternalLinksIssue ==
    Issue("warning", <<"No internal links found. Internal links help SEO.">>)
NoExternalLinksIssue ==
    Issue("info", <<"No external links found. Linking to reputable external sources can be beneficial.">>)

\* the rule an issue comes from, read off the start of its message
IssueRule(issue) ==
    LET start == Head(issue.message)
    IN CASE start \in {"Missing <title> tag.",
                       "Title is too long. Aim for under 60 characters."} -> "title"
         [] start \in {"Missing <meta name=\"description\"> tag.",
                       "Meta description is too long. Aim for under 160 characters."} -> "meta"
         [] start \in {"Missing <h1> tag.", "Found "} -> "h1"
         [] start = "Image is missing alt text (src: " -> "images"
         [] start = "Heading hierarchy skip: <" -> "headings"
         [] start \in {"No internal links found. Internal links help SEO.",
                       "No external links found. Linking to reputable external sources can be beneficial."}
                -> "links"
         [] OTHER -> "keyword"

IssuesOf(rule) == SelectSeq(issues, LAMBDA i : IssueRule(i) = rule)

\* the penalty an issue stands for
IssuePenalty(issue) ==
    LET start == Head(issue.message)
    IN CASE start \in {"Missing <title> tag.", "Missing <meta name=\"description\"> tag.",
                       "Missing <h1> tag.", "Content relevance to '"} -> 10
         [] start \in {"Title is too long. Aim for under 60 characters.",
                       "Meta description is too long. Aim for under 160 characters."} -> 3
         [] start = "Found " ->
                2 * ((CHOOSE n \in 2..50 : ToString(n) = issue.message[2]) - 1)
         [] start \in {"Image is missing alt text (src: ", "Heading hierarchy skip: <"} -> 5
         [] start = "No internal links found. Internal links help SEO." -> 2
         [] start = "Target keyword '" -> 3
         [] OTHER -> 0

RECURSIVE SumPenalties(_)
SumPenalties(is) == IF is = <<>> THEN 0 ELSE IssuePenalty(Head(is)) + SumPenalties(Tail(is))

\* the bonus of a semantic relevance above 80
RelevanceBonus ==
    IF semantic_report /= Unbound /\ semantic_report /= NoneObj
       /\ semantic_report.relevance_score > 80
    THEN 5 ELSE 0

\* the running score is 100, less the penalty of every issue, plus the bonus
ScoreAccounted == seo_score = 100 - SumPenalties(issues) + RelevanceBonus

\* the rules up to and including rule have been evaluated, without a fault
Past(rule) ==
    LET order == <<"start", "title", "meta", "h1", "images", "links", "headings",
                   "keyword", "apply", "log">>
        At(p) == CHOOSE i \in 1..Len(order) : order[i] = p
    IN IF pc = "done" THEN response.status = 200 ELSE At(pc) > At(rule)

\* C1: the score of a report is an integer from 0 to 100, whatever the
\* document, the keyword and the provider's answers
C1_ScoreInRange == Returned => Report.seoScore \in 0..100

\* a report whose running score fell below 0
C1_Witness == Returned /\ seo_score < 0 /\ Report.seoScore = 0

\* C2: a report for a request whose contentType is not "html" has score 0
\* and exactly one issue, an error, and no call of the provider was made
C2_NonHtmlShortCircuits ==
    (Returned /\ request.contentType /= "html") =>
        /\ Report.seoScore = 0
        /\ Len(Report.issues) = 1
        /\ Report.issues[1].type = "error"
        /\ ai_calls = <<>>

\* the bare document, no target keyword, every call of the provider failing
BareCase ==
    /\ Returned
    /\ request.content = BareDocument
    /\ request.contentType = "html"
    /\ ~Truthy(target_keyword)
    /\ \A i \in 1..Len(ai_calls) : ai_calls[i].failed

\* C3 as stated: for the bare document the report holds the missing-title
\* and the missing-meta issue and its score is 100 - P_title - P_meta
C3_Original ==
    BareCase =>
        /\ \E i \in 1..Len(Report.issues) : Report.issues[i] = MissingTitleIssue
        /\ \E i \in 1..Len(Report.issues) : Report.issues[i] = MissingMetaIssue
        /\ Report.seoScore = 100 - missing_title_penalty - missing_meta_penalty

\* C3 as amended: for the bare document the issues are the missing title,
\* the missing meta description, the warning that there is no internal link
\* and the note that there is no external link, and the score is
\* 100 - P_title - P_meta - 2, the 2 being the penalty for no internal link
C3_Amended ==
    BareCase =>
        /\ Report.issues = <<MissingTitleIssue, MissingMetaIssue,
                             NoInternalLinksIssue, NoExternalLinksIssue>>
        /\ Report.suggestions = <<>>
        /\ Report.seoScore = 100 - missing_title_penalty - missing_meta_penalty - 2

\* the bare case with a client whose calls all failed
C3_Witness == BareCase /\ ai_model_flash = Client /\ Len(ai_calls) >= 2

\* the last call of the log
LastCall(calls) == calls[Len(calls)]

\* C4: a meta-description or alt-text call that the provider does not answer
\* (no client, an exception, a quota error, an empty text) appends no
\* suggestion, and the missing-meta or missing-alt issue and its penalty are
\* recorded all the same
C4_FailedCallLeavesIssue ==
    [][(/\ Len(ai_calls') = Len(ai_calls) + 1
        /\ LastCall(ai_calls').failed
        /\ IsMetaOrAltTask(LastCall(ai_calls').task))
       => /\ suggestions' = suggestions
          /\ Len(issues') = Len(issues) + 1
          /\ IF LastCall(ai_calls').task = <<"meta_description">>
             THEN /\ issues'[Len(issues')] = MissingMetaIssue
                  /\ seo_score' = seo_score - 10
             ELSE /\ IssueRule(issues'[Len(issues')]) = "images"
                  /\ issues'[Len(issues')].type = "warning"
                  /\ seo_score' = seo_score - 5]_vars

\* a report after a meta-description call and an alt-text call that a
\* client was there for and that both failed
C4_Witness ==
    /\ Returned
    /\ ai_model_flash = Client
    /\ \E i \in 1..Len(ai_calls) :
          ai_calls[i].failed /\ ai_calls[i].task = <<"meta_description">>
    /\ \E i \in 1..Len(ai_calls) :
          ai_calls[i].failed /\ StartsWith(ai_calls[i].task, <<"alt_text:">>)
    /\ Report.suggestions = <<>>
    /\ \E i \in 1..Len(Report.issues) : Report.issues[i] = MissingMetaIssue
    /\ IssuesOf("images") /= <<>>

\* the place of a rule in the order title, meta description, h1 count,
\* images, heading hierarchy, links, keyword
ClaimedRank(rule) ==
    CASE rule = "title" -> 1 [] rule = "meta" -> 2 [] rule = "h1" -> 3
      [] rule = "images" -> 4 [] rule = "headings" -> 5 [] rule = "links" -> 6
      [] OTHER -> 7

\* C5: no issue of a later rule precedes an issue of an earlier rule, the
\* order being title, meta description, h1 count, images, heading hierarchy,
\* links, keyword
C5_IssueOrder ==
    \A i, j \in 1..Len(issues) :
        i < j => ClaimedRank(IssueRule(issues[i])) <= ClaimedRank(IssueRule(issues[j]))

\* C6: when the keyword rule raises (the target keyword is no string),
\* analyze_seo still returns a report
C6_RuleFaultContained ==
    (pc = "done" /\ request.config /= NoneObj
       /\ DictGet(request.config, "targetKeyword") = NonString)
    => /\ response.status = 200
       /\ IssuesOf("keyword") = <<>>

\* C7: a run ends with a report whose score, issues, suggestions, link
\* analysis and applied HTML are all there, or with the internal error and
\* no report; until it ends the caller has nothing
C7_CompleteOrError ==
    IF pc = "done"
    THEN \/ response = HttpError
         \/ /\ response.status = 200
            /\ Report.seoScore \in 0..100
            /\ Report.issues = issues
            /\ Report.suggestions = suggestions
            /\ Report.writingAssistance /= Unbound
            /\ Report.keywordAnalysis /= Unbound
            /\ Report.semanticAnalysis /= Unbound
            /\ Report.competitorAnalysis /= Unbound
            /\ Report.linkAnalysis /= Unbound
            /\ Report.linkAnalysis /= NoneObj
            /\ Report.appliedHtml /= Unbound
    ELSE response = NoResponse

\* a complete report although the logging of its suggestions failed
C7_Witness == Returned /\ db_rows.rolled_back /\ Report.suggestions /= <<>>

\* C8: every ai_alt_text suggestion carries a non-empty context
C8_AltSuggestionHasContext ==
    \A i \in 1..Len(suggestions) :
        suggestions[i].type = "ai_alt_text" => Truthy(suggestions[i].context)

\* the levels of the headings of the request's document, in document order
HeadingLevels ==
    LET hs == FindAll(request.content, {"h1", "h2", "h3", "h4", "h5", "h6"})
    IN [i \in 1..Len(hs) |-> HeadingLevel(hs[i].name)]

\* the headings whose level exceeds the level of the heading before by more
\* than one, the level before the first heading being 0
Skips(levels) ==
    {i \in 1..Len(levels) : levels[i] > (IF i = 1 THEN 0 ELSE levels[i - 1]) + 1}

\* C9: once the heading rule has run there is one warning for each heading
\* that skips a level and none besides, each at a penalty of 5
C9_HeadingSkips ==
    Past("headings") =>
        /\ Len(IssuesOf("headings")) = Cardinality(Skips(HeadingLevels))
        /\ \A i \in 1..Len(IssuesOf("headings")) : IssuesOf("headings")[i].type = "warning"
        /\ ScoreAccounted

\* h2, h1, h3: two skips, the second right after a heading that did not skip
C9_Witness ==
    /\ pc = "keyword"
    /\ HeadingLevels = <<2, 1, 3>>
    /\ Len(IssuesOf("headings")) = 2

\* the images of the request's document whose alt is absent or empty
ImagesWithoutAlt ==
    SelectSeq(FindAll(request.content, {"img"}),
              LAMBDA img : "alt" \notin DOMAIN img.attrs \/ img.attrs["alt"] = <<>>)

\* the alt-text calls made so far
AltCalls == SelectSeq(ai_calls, LAMBDA c : StartsWith(c.task, <<"alt_text:">>))

\* C10: once the images have been gone through there is one missing-alt
\* warning for each image whose alt is absent or empty, at a penalty of 5
\* each, and one alt-text call for each, in order, with the image's src
\* ("unknown" standing in for an image that has no src)
C10_MissingAlt ==
    Past("images") =>
        /\ Len(IssuesOf("images")) = Len(ImagesWithoutAlt)
        /\ \A i \in 1..Len(IssuesOf("images")) : IssuesOf("images")[i].type = "warning"
        /\ Len(AltCalls) = Len(ImagesWithoutAlt)
        /\ \A i \in 1..Len(AltCalls) :
              AltCalls[i].src = IF "src" \in DOMAIN ImagesWithoutAlt[i].attrs
                                THEN ImagesWithoutAlt[i].attrs["src"]
                                ELSE Unknown
        /\ ScoreAccounted

\* a report on an image with alt="" and an image with no alt at all
C10_Witness ==
    /\ Returned
    /\ Len(ImagesWithoutAlt) = 2
    /\ "alt" \in DOMAIN ImagesWithoutAlt[1].attrs
    /\ "alt" \notin DOMAIN ImagesWithoutAlt[2].attrs
    /\ Len(IssuesOf("images")) = 2

\* the request's document has no <title> element
NoTitleElement == FindAll(request.content, {"title"}) = <<>>

\* an issue that is about the title: the title rule's, or the keyword rule's
\* note that the keyword is not in the <title>
TitleRelated(issue) ==
    \/ IssueRule(issue) = "title"
    \/ /\ Head(issue.message) = "Target keyword '"
       /\ issue.message[Len(issue.message)] = "' not found in <title>."

\* C11: for a document with no <title>, with or without a target keyword,
\* the report has exactly one title-related error issue and the penalties
\* taken on account of the title amount to the missing-title penalty, once
C11_TitleCountedOnce ==
    (Returned /\ NoTitleElement) =>
        /\ Len(SelectSeq(Report.issues,
                         LAMBDA i : TitleRelated(i) /\ i.type = "error")) = 1
        /\ SumPenalties(SelectSeq(Report.issues, TitleRelated)) = missing_title_penalty

\* an <a> among or inside nodes that lies inside another <a>
RECURSIVE LinkInLink(_, _)
LinkInLink(nodes, in_link) ==
    \E i \in 1..Len(nodes) :
        /\ nodes[i].name /= "#text"
        /\ \/ nodes[i].name = "a" /\ in_link
           \/ LinkInLink(nodes[i].children, in_link \/ nodes[i].name = "a")

\* the hyperlinks of a document as prettify() writes them
Anchors(doc) == FindAll(Prettify(doc), {"a"})

\* C12: the applied document has no hyperlink inside a hyperlink, and every
\* hyperlink of the request's document is in it as it was
C12_NoNestedLink ==
    Returned =>
        /\ ~LinkInLink(Elements(Report.appliedHtml), FALSE)
        /\ \A i \in 1..Len(Anchors(request.content)) :
              \E j \in 1..Len(Anchors(Report.appliedHtml)) :
                  Anchors(Report.appliedHtml)[j] = Anchors(request.content)[i]

\* nothing for apply_all_suggestions to apply: no ai_meta and no ai_alt_text
\* suggestion, no conclusion and no link suggestion
NothingToApply ==
    /\ \A i \in 1..Len(suggestions) : suggestions[i].type \notin {"ai_meta", "ai_alt_text"}
    /\ ~Truthy(writing_report.conclusion)
    /\ link_report.ai_suggestions = <<>>

\* C13: with nothing to apply, the applied document has the elements, the
\* attributes and the text of the request's document, in the same order
C13_NothingAppliedSameDocument ==
    (Returned /\ NothingToApply) => Report.appliedHtml = Prettify(request.content)

\* the extracted text of the request's document, lower-cased
PageTextLower == Lower(get_page_text(request.content))

\* the places where the lower-cased keyword stands in the lower-cased text
\* (the keywords of the requests cannot overlap themselves)
Occurrences ==
    LET kw == Lower(DictGet(request.config, "targetKeyword"))
    IN {i \in 0..(Len(PageTextLower) - Len(kw)) :
           SubSeq(PageTextLower, i + 1, i + Len(kw)) = kw}

\* the places where a word of the text starts
WordStarts ==
    {i \in 1..Len(PageTextLower) :
        /\ PageTextLower[i] \notin WhiteSpace
        /\ (i = 1 \/ PageTextLower[i - 1] \in WhiteSpace)}

\* C14: the report's bodyCount is the number of occurrences of the
\* lower-cased keyword in the lower-cased text; its density, in hundredths
\* of a percent, is the integer nearest to bodyCount / totalWordCount * 100
\* * 100, and 0 when the text has no word
C14_Density ==
    (Returned /\ Report.keywordAnalysis /= NoneObj) =>
        LET body_count == Cardinality(Occurrences)
            total_words == Cardinality(WordStarts)
            density == Report.keywordAnalysis.density
        IN /\ Report.keywordAnalysis.bodyCount = body_count
           /\ IF total_words = 0 THEN density = 0
              ELSE /\ 2 * (density * total_words - body_count * 10000) <= total_words
                   /\ 2 * (body_count * 10000 - density * total_words) <= total_words

\* two occurrences among three words: 66.67 percent, rounded up
C14_Witness ==
    /\ Returned
    /\ Report.keywordAnalysis /= NoneObj
    /\ Cardinality(WordStarts) = 3
    /\ Report.keywordAnalysis.bodyCount = 2
    /\ Report.keywordAnalysis.density = 6667

\* a text with no word: density 0
C14_WitnessEmpty ==
    /\ Returned
    /\ Report.keywordAnalysis /= NoneObj
    /\ Cardinality(WordStarts) = 0
    /\ Report.keywordAnalysis.density = 0

\* 100, less the penalty of every issue of the report, plus 5 when the
\* report's semantic relevance is above 80
RawScore ==
    100 - SumPenalties(Report.issues)
        + (IF Report.semanticAnalysis /= NoneObj
              /\ Report.semanticAnalysis.relevance_score > 80
           THEN 5 ELSE 0)

\* C15: the running total is at every moment 100 less the penalties so far
\* plus the bonus, whether or not it lies in 0..100, and the report's score
\* is that total brought into 0..100 once, at the end
C15_ClampedOnce ==
    /\ ScoreAccounted
    /\ Returned =>
          Report.seoScore = (IF RawScore < 0 THEN 0
                             ELSE IF RawScore > 100 THEN 100 ELSE RawScore)

\* the bonus took the total to 105, a penalty of 3 came after, and the
\* report has 100: clamping after the bonus would have given 97
C15_Witness ==
    /\ Returned
    /\ RawScore = 102
    /\ Report.seoScore = 100
    /\ \E i \in 1..Len(Report.issues) : IssuePenalty(Report.issues[i]) = 3

\* the total fell below 0 before the keyword rule took 6 more off
C15_WitnessBelow ==
    /\ Returned
    /\ RawScore < -5
    /\ Len(IssuesOf("keyword")) = 2
    /\ Report.seoScore = 0

\* the calls made for violations: the meta-description and the alt-text calls
ViolationCalls(calls) == SelectSeq(calls, LAMBDA c : IsMetaOrAltTask(c.task))

\* the src an alt-text call is to carry for an image
SrcOrUnknown(img) == IF "src" \in DOMAIN img.attrs THEN img.attrs["src"] ELSE Unknown

\* what a step may do to the calls for violations and to the suggestions:
\* nothing, or one call more, the meta-description call before every other
\* and an alt-text call for the next image without alt text, and with it at
\* most one suggestion more, which is the one that call was made for
OneCallAtATime ==
    LET before == ViolationCalls(ai_calls)
        after == ViolationCalls(ai_calls')
        call == LastCall(after)
        sugg == LastCall(suggestions')
    IN \/ after = before /\ suggestions' = suggestions
       \/ /\ after = Append(before, call)
          /\ IF call.task = <<"meta_description">>
             THEN /\ before = <<>>
                  /\ LastCall(issues') = MissingMetaIssue
             ELSE /\ Len(before) - Len(AltCalls) <= 1
                  /\ Len(AltCalls) < Len(ImagesWithoutAlt)
                  /\ call.src = SrcOrUnknown(ImagesWithoutAlt[Len(AltCalls) + 1])
          /\ \/ suggestions' = suggestions
             \/ /\ suggestions' = Append(suggestions, sugg)
                /\ IF call.task = <<"meta_description">>
                   THEN sugg.type = "ai_meta"
                   ELSE sugg.type = "ai_alt_text" /\ sugg.context = call.src

\* C16: the calls for violations are made one at a time, the meta-description
\* call first and the alt-text calls in the order of the images, once for
\* each violation, and the suggestions stand in the order of their calls
C16_CallsInOrder ==
    /\ [](Past("images") =>
             /\ Len(AltCalls) = Len(ImagesWithoutAlt)
             /\ Len(ViolationCalls(ai_calls)) - Len(AltCalls)
                    = Len(SelectSeq(issues, LAMBDA i : i = MissingMetaIssue))
             /\ Len(suggestions) <= Len(ViolationCalls(ai_calls)))
    /\ [][OneCallAtATime]_vars

\* a report with three suggestions in the order of their violations: the
\* meta description, then two images with different src
C16_Witness ==
    /\ Returned
    /\ Len(Report.suggestions) = 3
    /\ Report.suggestions[1].type = "ai_meta"
    /\ Report.suggestions[2].type = "ai_alt_text"
    /\ Report.suggestions[3].type = "ai_alt_text"
    /\ Report.suggestions[2].context /= Report.suggestions[3].context

\* C17: whenever a meta-description or alt-text call is answered with a
\* single non-empty string, be it JSON or not, a suggestion is appended
\* whose content is that string
C17_SingleStringKept ==
    [][(/\ Len(ai_calls') = Len(ai_calls) + 1
        /\ IsMetaOrAltTask(LastCall(ai_calls').task)
        /\ LastCall(ai_calls').string /= None
        /\ Strip(LastCall(ai_calls').string) /= <<>>)
       => /\ Len(suggestions') = Len(suggestions) + 1
          /\ LastCall(suggestions').content
                \in {LastCall(ai_calls').string,
                     Strip(StripQuote(Strip(LastCall(ai_calls').string)))}]_vars

\* the ai_meta suggestions of the report
MetaSuggestions == SelectSeq(Report.suggestions, LAMBDA sg : sg.type = "ai_meta")

\* C18: when the report has an ai_meta suggestion, the applied document has
\* a <meta name="description"> whose content is that suggestion's content,
\* whether or not the document has a <head>
C18_MetaApplied ==
    (Returned /\ MetaSuggestions /= <<>>) =>
        \E i \in 1..Len(AllTags(Report.appliedHtml)) :
            /\ IsMetaDescription(AllTags(Report.appliedHtml)[i])
            /\ Get(AllTags(Report.appliedHtml)[i], "content") = MetaSuggestions[1].content

\* the strings of a document one after the other, white space left out,
\* <script> and <style> not being text that is seen
VisibleText(doc) ==
    LET els == Elements(Decomposed(doc))
        strings == Flatten([i \in 1..Len(els) |-> StringsOf(els[i])])
    IN SelectSeq(Flatten(strings), LAMBDA c : c \notin WhiteSpace)

\* C19: when link suggestions were applied (and no conclusion was added),
\* the applied document has the visible text of the request's document
C19_LinkKeepsText ==
    (/\ Returned
     /\ Report.linkAnalysis.ai_suggestions /= <<>>
     /\ ~Truthy(Report.writingAssistance.conclusion))
    => VisibleText(Report.appliedHtml) = VisibleText(request.content)

\* the images of a document that have a non-empty alt
WithAlt(doc) == SelectSeq(FindAll(doc, {"img"}), LAMBDA img : Truthy(Get(img, "alt")))

\* the ai_alt_text suggestions of the report
AltSuggestions == SelectSeq(Report.suggestions, LAMBDA sg : sg.type = "ai_alt_text")

\* C20: in the applied document every image that had a non-empty alt has
\* the alt it had, and every image an ai_alt_text suggestion was made for
\* (each for another image without alt text) has a non-empty alt
C20_AltOnlyWhereMissing ==
    Returned =>
        LET before == FindAll(request.content, {"img"})
            after == FindAll(Report.appliedHtml, {"img"})
        IN /\ Len(after) = Len(before)
           /\ \A i \in 1..Len(before) :
                 Truthy(Get(before[i], "alt")) => Get(after[i], "alt") = Get(before[i], "alt")
           /\ Len(WithAlt(Report.appliedHtml))
                 = Len(WithAlt(request.content)) + Len(AltSuggestions)

====
